---- MODULE Spec2Model ----
(***************************************************************************)
(* The literal scanners of goparsify (literals.go): stringImpl and the     *)
(* parsers built on it (StringLit, CustomStringLiteral,                    *)
(* CustomRegexpMatchLiteral, CustomRegexpReplaceLiteral) and NumberLit.    *)
(*                                                                         *)
(* A Go string is a sequence of bytes (0..255); offsets are the 0-based    *)
(* byte offsets of the source, so ps.Input[a:b] is Slice(Input, a, b).     *)
(* Runes are integers.  The loop of stringImpl is one action per           *)
(* iteration; a parser is an entry action, the iterations of the scan it   *)
(* starts, and a return action for the code after the call.                *)
(***************************************************************************)
EXTENDS Integers, Sequences, FiniteSets, TLC

(***************************************************************************)
(* Bounds of the checked inputs.                                           *)
(***************************************************************************)
\* Spec: the input is at most MaxFrags code points of StrAlphabet
MaxFrags == 5
\* SpecHex: at most MaxDigits code points follow the backslash-u ...
MaxDigits == 4
\* ... and at most MaxTail code points follow those
MaxTail == 2
\* SpecNum: the input is at most MaxNumLen bytes of NumAlphabet
MaxNumLen == 4
\* SpecDelim: the input opens with a code point of 0..MaxRune, of a pairing
\* table or of OtherRunes ...
MaxRune == 255
\* ... and at most MaxClosers code points follow it
MaxClosers == 2
\* SpecFail: the input is at most MaxFailLen bytes of FailAlphabet
MaxFailLen == 4
\* SpecRound: the input is a literal of at most MaxValueLen code points of
\* ValueAlphabet, re-escaped
MaxValueLen == 3
\* SpecCaller: each segment of the input is at most MaxSegment bytes
MaxSegment == 2

(***************************************************************************)
(* Code points the source names.                                           *)
(***************************************************************************)
\* utf8.RuneError, what DecodeRuneInString yields for a malformed sequence
RuneError == 65533
\* '\\'
Backslash == 92
\* 'u'
LetterU == 117
\* '>'
GreaterThan == 62
\* the closer IsValidRegexpDelimiter returns with false
NoCloser == -1

(***************************************************************************)
(* Go strings and UTF-8 (unicode/utf8).                                    *)
(***************************************************************************)
\* s[a:b]
Slice(s, a, b) == SubSeq(s, a + 1, b)

\* s[a:]
From(s, a) == SubSeq(s, a + 1, Len(s))

\* a UTF-8 continuation byte within [lo, hi]
Cont(s, i, lo, hi) == i <= Len(s) /\ s[i] >= lo /\ s[i] <= hi

\* utf8.DecodeRuneInString(s): <<rune, size>>; <<RuneError, 0>> for the empty
\* string and <<RuneError, 1>> for a malformed or truncated sequence
DecodeRuneInString(s) ==
    IF Len(s) = 0 THEN <<RuneError, 0>>
    ELSE LET b0 == s[1] IN
      IF b0 < 128 THEN <<b0, 1>>
      ELSE IF b0 >= 194 /\ b0 <= 223 THEN
        IF Cont(s, 2, 128, 191)
        THEN <<(b0 - 192) * 64 + (s[2] - 128), 2>>
        ELSE <<RuneError, 1>>
      ELSE IF b0 >= 224 /\ b0 <= 239 THEN
        IF /\ Cont(s, 2, IF b0 = 224 THEN 160 ELSE 128,
                         IF b0 = 237 THEN 159 ELSE 191)
           /\ Cont(s, 3, 128, 191)
        THEN <<(b0 - 224) * 4096 + (s[2] - 128) * 64 + (s[3] - 128), 3>>
        ELSE <<RuneError, 1>>
      ELSE IF b0 >= 240 /\ b0 <= 244 THEN
        IF /\ Cont(s, 2, IF b0 = 240 THEN 144 ELSE 128,
                         IF b0 = 244 THEN 143 ELSE 191)
           /\ Cont(s, 3, 128, 191)
           /\ Cont(s, 4, 128, 191)
        THEN <<(b0 - 240) * 262144 + (s[2] - 128) * 4096
                 + (s[3] - 128) * 64 + (s[4] - 128), 4>>
        ELSE <<RuneError, 1>>
      ELSE <<RuneError, 1>>

\* the bytes utf8.EncodeRune writes for r: a surrogate or out-of-range rune
\* is written as RuneError
EncodeRune(r) ==
    LET v == IF r < 0 \/ r > 1114111 \/ (r >= 55296 /\ r <= 57343)
             THEN RuneError ELSE r
    IN  IF v < 128 THEN <<v>>
        ELSE IF v < 2048 THEN <<192 + (v \div 64), 128 + (v % 64)>>
        ELSE IF v < 65536
          THEN <<224 + (v \div 4096), 128 + ((v \div 64) % 64), 128 + (v % 64)>>
        ELSE <<240 + (v \div 262144), 128 + ((v \div 4096) % 64),
               128 + ((v \div 64) % 64), 128 + (v % 64)>>

\* bytes.Runes([]byte(s)), and the runes a range loop over s yields
RECURSIVE Runes(_)
Runes(s) ==
    IF Len(s) = 0 THEN <<>>
    ELSE LET d == DecodeRuneInString(s)
         IN  <<d[1]>> \o Runes(From(s, d[2]))

\* the UTF-8 text of a sequence of runes
RECURSIVE Utf8(_)
Utf8(rs) == IF rs = <<>> THEN <<>> ELSE EncodeRune(Head(rs)) \o Utf8(Tail(rs))

\* bytes.Buffer: nil until allocated (var buf *bytes.Buffer)
NilBuf == [nil |-> TRUE, bytes |-> <<>>]

\* buf.WriteRune(r) on an allocated buffer
WriteRune(b, r) == [nil |-> FALSE, bytes |-> b.bytes \o EncodeRune(r)]

(***************************************************************************)
(* The static tables.                                                      *)
(***************************************************************************)
_PiPf ==
    (171 :> 187) @@ (8216 :> 8217) @@ (8220 :> 8221) @@ (8249 :> 8250) @@
    (11778 :> 11779) @@ (11780 :> 11781) @@ (11785 :> 11786) @@
    (11788 :> 11789) @@ (11804 :> 11805) @@ (11808 :> 11809)

_PsPf ==
    (8218 :> 8217) @@ (8222 :> 8221)

_PsPe ==
    (40 :> 41) @@ (91 :> 93) @@ (123 :> 125) @@ (3898 :> 3899) @@
    (3900 :> 3901) @@ (5787 :> 5788) @@ (8261 :> 8262) @@ (8317 :> 8318) @@
    (8333 :> 8334) @@ (10088 :> 10089) @@ (10090 :> 10091) @@
    (10092 :> 10093) @@ (10094 :> 10095) @@ (10096 :> 10097) @@
    (10098 :> 10099) @@ (10100 :> 10101) @@ (10181 :> 10182) @@
    (10214 :> 10215) @@ (10216 :> 10217) @@ (10218 :> 10219) @@
    (10627 :> 10628) @@ (10629 :> 10630) @@ (10631 :> 10632) @@
    (10633 :> 10634) @@ (10635 :> 10636) @@ (10641 :> 10642) @@
    (10643 :> 10644) @@ (10645 :> 10646) @@ (10647 :> 10648) @@
    (10712 :> 10713) @@ (10714 :> 10715) @@ (10748 :> 10749) @@
    (12296 :> 12297) @@ (12298 :> 12299) @@ (12300 :> 12301) @@
    (12302 :> 12303) @@ (12304 :> 12305) @@ (12308 :> 12309) @@
    (12310 :> 12311) @@ (12312 :> 12313) @@ (12314 :> 12315) @@
    (12317 :> 12318) @@ (65047 :> 65048) @@ (65077 :> 65078) @@
    (65079 :> 65080) @@ (65081 :> 65082) @@ (65083 :> 65084) @@
    (65085 :> 65086) @@ (65087 :> 65088) @@ (65089 :> 65090) @@
    (65091 :> 65092) @@ (65095 :> 65096) @@ (65113 :> 65114) @@
    (65115 :> 65116) @@ (65117 :> 65118) @@ (65288 :> 65289) @@
    (65339 :> 65341) @@ (65371 :> 65373) @@ (65375 :> 65376) @@
    (65378 :> 65379) @@ (11816 :> 11817)

_SmSm ==
    (60 :> 62)

_Escapes ==
    (97 :> 7) @@ (98 :> 8) @@ (102 :> 12) @@ (110 :> 10) @@ (114 :> 13) @@
    (116 :> 9) @@ (118 :> 11)

\* the Unicode version of the tables of package unicode of the Go release
\* that builds the code: 13 with Go 1.16 to 1.20, 15 from Go 1.21 on
GoUnicode == 15

\* unicode.P of Unicode 13.0.0: the ranges of the code points of category P
PunctRanges13 ==
  {
    <<33, 35>>, <<37, 42>>, <<44, 47>>, <<58, 59>>, <<63, 64>>, <<91, 93>>,
    <<95, 95>>, <<123, 123>>, <<125, 125>>, <<161, 161>>, <<167, 167>>,
    <<171, 171>>, <<182, 183>>, <<187, 187>>, <<191, 191>>, <<894, 894>>,
    <<903, 903>>, <<1370, 1375>>, <<1417, 1418>>, <<1470, 1470>>,
    <<1472, 1472>>, <<1475, 1475>>, <<1478, 1478>>, <<1523, 1524>>,
    <<1545, 1546>>, <<1548, 1549>>, <<1563, 1563>>, <<1566, 1567>>,
    <<1642, 1645>>, <<1748, 1748>>, <<1792, 1805>>, <<2039, 2041>>,
    <<2096, 2110>>, <<2142, 2142>>, <<2404, 2405>>, <<2416, 2416>>,
    <<2557, 2557>>, <<2678, 2678>>, <<2800, 2800>>, <<3191, 3191>>,
    <<3204, 3204>>, <<3572, 3572>>, <<3663, 3663>>, <<3674, 3675>>,
    <<3844, 3858>>, <<3860, 3860>>, <<3898, 3901>>, <<3973, 3973>>,
    <<4048, 4052>>, <<4057, 4058>>, <<4170, 4175>>, <<4347, 4347>>,
    <<4960, 4968>>, <<5120, 5120>>, <<5742, 5742>>, <<5787, 5788>>,
    <<5867, 5869>>, <<5941, 5942>>, <<6100, 6102>>, <<6104, 6106>>,
    <<6144, 6154>>, <<6468, 6469>>, <<6686, 6687>>, <<6816, 6822>>,
    <<6824, 6829>>, <<7002, 7008>>, <<7164, 7167>>, <<7227, 7231>>,
    <<7294, 7295>>, <<7360, 7367>>, <<7379, 7379>>, <<8208, 8231>>,
    <<8240, 8259>>, <<8261, 8273>>, <<8275, 8286>>, <<8317, 8318>>,
    <<8333, 8334>>, <<8968, 8971>>, <<9001, 9002>>, <<10088, 10101>>,
    <<10181, 10182>>, <<10214, 10223>>, <<10627, 10648>>, <<10712, 10715>>,
    <<10748, 10749>>, <<11513, 11516>>, <<11518, 11519>>, <<11632, 11632>>,
    <<11776, 11822>>, <<11824, 11855>>, <<11858, 11858>>, <<12289, 12291>>,
    <<12296, 12305>>, <<12308, 12319>>, <<12336, 12336>>, <<12349, 12349>>,
    <<12448, 12448>>, <<12539, 12539>>, <<42238, 42239>>, <<42509, 42511>>,
    <<42611, 42611>>, <<42622, 42622>>, <<42738, 42743>>, <<43124, 43127>>,
    <<43214, 43215>>, <<43256, 43258>>, <<43260, 43260>>, <<43310, 43311>>,
    <<43359, 43359>>, <<43457, 43469>>, <<43486, 43487>>, <<43612, 43615>>,
    <<43742, 43743>>, <<43760, 43761>>, <<44011, 44011>>, <<64830, 64831>>,
    <<65040, 65049>>, <<65072, 65106>>, <<65108, 65121>>, <<65123, 65123>>,
    <<65128, 65128>>, <<65130, 65131>>, <<65281, 65283>>, <<65285, 65290>>,
    <<65292, 65295>>, <<65306, 65307>>, <<65311, 65312>>, <<65339, 65341>>,
    <<65343, 65343>>, <<65371, 65371>>, <<65373, 65373>>, <<65375, 65381>>,
    <<65792, 65794>>, <<66463, 66463>>, <<66512, 66512>>, <<66927, 66927>>,
    <<67671, 67671>>, <<67871, 67871>>, <<67903, 67903>>, <<68176, 68184>>,
    <<68223, 68223>>, <<68336, 68342>>, <<68409, 68415>>, <<68505, 68508>>,
    <<69293, 69293>>, <<69461, 69465>>, <<69703, 69709>>, <<69819, 69820>>,
    <<69822, 69825>>, <<69952, 69955>>, <<70004, 70005>>, <<70085, 70088>>,
    <<70093, 70093>>, <<70107, 70107>>, <<70109, 70111>>, <<70200, 70205>>,
    <<70313, 70313>>, <<70731, 70735>>, <<70746, 70747>>, <<70749, 70749>>,
    <<70854, 70854>>, <<71105, 71127>>, <<71233, 71235>>, <<71264, 71276>>,
    <<71484, 71486>>, <<71739, 71739>>, <<72004, 72006>>, <<72162, 72162>>,
    <<72255, 72262>>, <<72346, 72348>>, <<72350, 72354>>, <<72769, 72773>>,
    <<72816, 72817>>, <<73463, 73464>>, <<73727, 73727>>, <<74864, 74868>>,
    <<92782, 92783>>, <<92917, 92917>>, <<92983, 92987>>, <<92996, 92996>>,
    <<93847, 93850>>, <<94178, 94178>>, <<113823, 113823>>,
    <<121479, 121483>>, <<125278, 125279>>
  }

\* the code points of category P that Unicode 14.0.0 and 15.0.0 added
PunctAdded15 ==
  {
    <<1565, 1565>>, <<7037, 7038>>, <<11859, 11869>>, <<69510, 69513>>,
    <<71353, 71353>>, <<72448, 72457>>, <<73539, 73551>>, <<77809, 77810>>
  }

\* unicode.P, the table unicode.IsPunct reads
PunctRanges ==
    IF GoUnicode >= 15 THEN PunctRanges13 \cup PunctAdded15 ELSE PunctRanges13

\* IsPunct, were the vertical bar taken for punctuation
IsPunctOrBar(r) == r = 124 \/ \E rg \in PunctRanges : rg[1] <= r /\ r <= rg[2]

\* unicode.IsPunct(r)
IsPunct(r) == \E rg \in PunctRanges : rg[1] <= r /\ r <= rg[2]

\* IsValidRegexpDelimiter, were the test r == '>' left out
IsValidRegexpDelimiterNoGreater(r) ==
    IF r \in DOMAIN _PiPf THEN <<TRUE, _PiPf[r]>>
    ELSE IF r \in DOMAIN _PsPf THEN <<TRUE, _PsPf[r]>>
    ELSE IF r \in DOMAIN _PsPe THEN <<TRUE, _PsPe[r]>>
    ELSE IF r \in DOMAIN _SmSm THEN <<TRUE, _SmSm[r]>>
    ELSE IF IsPunct(r) THEN <<TRUE, r>>
    ELSE <<FALSE, NoCloser>>

\* IsValidRegexpDelimiter(r): <<valid, closer>>; the tables are tried in
\* the order _PiPf, _PsPf, _PsPe, _SmSm, then any punctuation or '>'
IsValidRegexpDelimiter(r) ==
    IF r \in DOMAIN _PiPf THEN <<TRUE, _PiPf[r]>>
    ELSE IF r \in DOMAIN _PsPf THEN <<TRUE, _PsPf[r]>>
    ELSE IF r \in DOMAIN _PsPe THEN <<TRUE, _PsPe[r]>>
    ELSE IF r \in DOMAIN _SmSm THEN <<TRUE, _SmSm[r]>>
    ELSE IF IsPunct(r) \/ r = GreaterThan THEN <<TRUE, r>>
    ELSE <<FALSE, NoCloser>>

\* stringContainsRune(s, r)
stringContainsRune(s, r) ==
    LET runes == Runes(s) IN \E i \in 1..Len(runes) : runes[i] = r

\* the value of one hex digit of unhex, -1 for any other rune
HexVal(c) ==
    IF 48 <= c /\ c <= 57 THEN c - 48
    ELSE IF 97 <= c /\ c <= 102 THEN c - 97 + 10
    ELSE IF 65 <= c /\ c <= 70 THEN c - 65 + 10
    ELSE -1

\* the loop of unhex over the runes rs, v being the value so far
RECURSIVE unhexLoop(_, _)
unhexLoop(rs, v) ==
    IF rs = <<>> THEN [v |-> v, ok |-> TRUE]
    ELSE IF HexVal(Head(rs)) < 0 THEN [v |-> 0, ok |-> FALSE]
    ELSE unhexLoop(Tail(rs), v * 16 + HexVal(Head(rs)))

\* unhex(b): [v, ok]
unhex(b) == unhexLoop(Runes(b), 0)

(***************************************************************************)
(* strconv.ParseInt(s, 10, 64) and strconv.ParseFloat(s, 10) on the slices *)
(* NumberLit hands them (signs, ASCII digits, '.', 'e', 'E').  A value is  *)
(* kept as its sign and decimal digits, so that 64-bit values need no      *)
(* 64-bit arithmetic: an int64 is neg, digits without leading zeros; a     *)
(* float64 is the decimal digits * 10^exp10 that ParseFloat rounds to the  *)
(* nearest float64 (the binary rounding itself is not modelled).           *)
(***************************************************************************)
IsDigit(b) == b >= 48 /\ b <= 57

IsSign(b) == b = 45 \/ b = 43

\* the digits (0..9) of a run of ASCII digits
DigitsOf(s) == [i \in 1..Len(s) |-> s[i] - 48]

RECURSIVE StripLeadingZeros(_)
StripLeadingZeros(ds) ==
    IF ds # <<>> /\ Head(ds) = 0 THEN StripLeadingZeros(Tail(ds)) ELSE ds

RECURSIVE StripTrailingZeros(_)
StripTrailingZeros(ds) ==
    IF ds # <<>> /\ ds[Len(ds)] = 0
    THEN StripTrailingZeros(SubSeq(ds, 1, Len(ds) - 1)) ELSE ds

\* a < b for digit strings of one length (lexicographic)
RECURSIVE LexLess(_, _)
LexLess(a, b) ==
    IF a = <<>> \/ b = <<>> THEN FALSE
    ELSE IF Head(a) # Head(b) THEN Head(a) < Head(b)
    ELSE LexLess(Tail(a), Tail(b))

\* a < b for digit strings without leading zeros
NumLess(a, b) == Len(a) < Len(b) \/ (Len(a) = Len(b) /\ LexLess(a, b))

\* 1<<63 - 1, and 1<<63
MaxInt64Digits == <<9,2,2,3,3,7,2,0,3,6,8,5,4,7,7,5,8,0,7>>

MinInt64Digits == <<9,2,2,3,3,7,2,0,3,6,8,5,4,7,7,5,8,0,8>>

\* 2^1024 - 2^970, halfway from the largest float64 to 2^1024: the decimals
\* from it on round to an infinity
InfDigits ==
  <<
    1,7,9,7,6,9,3,1,3,4,8,6,2,3,1,5,8,0,7,9,3,7,2,8,9,7,1,4,0,5,3,0,3,4,1,5,0,
    7,9,9,3,4,1,3,2,7,1,0,0,3,7,8,2,6,9,3,6,1,7,3,7,7,8,9,8,0,4,4,4,9,6,8,2,9,
    2,7,6,4,7,5,0,9,4,6,6,4,9,0,1,7,9,7,7,5,8,7,2,0,7,0,9,6,3,3,0,2,8,6,4,1,6,
    6,9,2,8,8,7,9,1,0,9,4,6,5,5,5,5,4,7,8,5,1,9,4,0,4,0,2,6,3,0,6,5,7,4,8,8,6,
    7,1,5,0,5,8,2,0,6,8,1,9,0,8,9,0,2,0,0,0,7,0,8,3,8,3,6,7,6,2,7,3,8,5,4,8,4,
    5,8,1,7,7,1,1,5,3,1,7,6,4,4,7,5,7,3,0,2,7,0,0,6,9,8,5,5,5,7,1,3,6,6,9,5,9,
    6,2,2,8,4,2,9,1,4,8,1,9,8,6,0,8,3,4,9,3,6,4,7,5,2,9,2,7,1,9,0,7,4,1,6,8,4,
    4,4,3,6,5,5,1,0,7,0,4,3,4,2,7,1,1,5,5,9,6,9,9,5,0,8,0,9,3,0,4,2,8,8,0,1,7,
    7,9,0,4,1,7,4,4,9,7,7,9,2
  >>

\* the digits of 2^-1075 (5^1075; the first stands for 10^-324), half the
\* smallest float64: the decimals up to it round to zero
ZeroDigits ==
  <<
    2,4,7,0,3,2,8,2,2,9,2,0,6,2,3,2,7,2,0,8,8,2,8,4,3,9,6,4,3,4,1,1,0,6,8,6,1,
    8,2,5,2,9,9,0,1,3,0,7,1,6,2,3,8,2,2,1,2,7,9,2,8,4,1,2,5,0,3,3,7,7,5,3,6,3,
    5,1,0,4,3,7,5,9,3,2,6,4,9,9,1,8,1,8,0,8,1,7,9,9,6,1,8,9,8,9,8,2,8,2,3,4,7,
    7,2,2,8,5,8,8,6,5,4,6,3,3,2,8,3,5,5,1,7,7,9,6,9,8,9,8,1,9,9,3,8,7,3,9,8,0,
    0,5,3,9,0,9,3,9,0,6,3,1,5,0,3,5,6,5,9,5,1,5,5,7,0,2,2,6,3,9,2,2,9,0,8,5,8,
    3,9,2,4,4,9,1,0,5,1,8,4,4,3,5,9,3,1,8,0,2,8,4,9,9,3,6,5,3,6,1,5,2,5,0,0,3,
    1,9,3,7,0,4,5,7,6,7,8,2,4,9,2,1,9,3,6,5,6,2,3,6,6,9,8,6,3,6,5,8,4,8,0,7,5,
    7,0,0,1,5,8,5,7,6,9,2,6,9,9,0,3,7,0,6,3,1,1,9,2,8,2,7,9,5,5,8,5,5,1,3,3,2,
    9,2,7,8,3,4,3,3,8,4,0,9,3,5,1,9,7,8,0,1,5,5,3,1,2,4,6,5,9,7,2,6,3,5,7,9,5,
    7,4,6,2,2,7,6,6,4,6,5,2,7,2,8,2,7,2,2,0,0,5,6,3,7,4,0,0,6,4,8,5,4,9,9,9,7,
    7,0,9,6,5,9,9,4,7,0,4,5,4,0,2,0,8,2,8,1,6,6,2,2,6,2,3,7,8,5,7,3,9,3,4,5,0,
    7,3,6,3,3,9,0,0,7,9,6,7,7,6,1,9,3,0,5,7,7,5,0,6,7,4,0,1,7,6,3,2,4,6,7,3,6,
    0,0,9,6,8,9,5,1,3,4,0,5,3,5,5,3,7,4,5,8,5,1,6,6,6,1,1,3,4,2,2,3,7,6,6,6,7,
    8,6,0,4,1,6,2,1,5,9,6,8,0,4,6,1,9,1,4,4,6,7,2,9,1,8,4,0,3,0,0,5,3,0,0,5,7,
    5,3,0,8,4,9,0,4,8,7,6,5,3,9,1,7,1,1,3,8,6,5,9,1,6,4,6,2,3,9,5,2,4,9,1,2,6,
    2,3,6,5,3,8,8,1,8,7,9,6,3,6,2,3,9,3,7,3,2,8,0,4,2,3,8,9,1,0,1,8,6,7,2,3,4,
    8,4,9,7,6,6,8,2,3,5,0,8,9,8,6,3,3,8,8,5,8,7,9,2,5,6,2,8,3,0,2,7,5,5,9,9,5,
    6,5,7,5,2,4,4,5,5,5,0,7,2,5,5,1,8,9,3,1,3,6,9,0,8,3,6,2,5,4,7,7,9,1,8,6,9,
    4,8,6,6,7,9,9,4,9,6,8,3,2,4,0,4,9,7,0,5,8,2,1,0,2,8,5,1,3,1,8,5,4,5,1,3,9,
    6,2,1,3,8,3,7,7,2,2,8,2,6,1,4,5,4,3,7,6,9,3,4,1,2,5,3,2,0,9,8,5,9,1,3,2,7,
    6,6,7,2,3,6,3,2,8,1,2,5
  >>

NoResult == [kind |-> "nil", neg |-> FALSE, digits |-> <<>>, exp10 |-> 0,
             inf |-> FALSE]

Int64(neg, ds) == [kind |-> "int64", neg |-> neg, digits |-> ds, exp10 |-> 0,
                   inf |-> FALSE]

Float64(neg, ds, e) == [kind |-> "float64", neg |-> neg, digits |-> ds,
                        exp10 |-> e, inf |-> FALSE]

Float64Inf(neg) == [kind |-> "float64", neg |-> neg, digits |-> <<>>,
                    exp10 |-> 0, inf |-> TRUE]

\* strconv.ParseInt(s, 10, 64): [v, ok]; a syntax error yields 0, a range
\* error the nearest bound
ParseInt(s) ==
    LET signed == s # <<>> /\ IsSign(s[1])
        neg    == signed /\ s[1] = 45
        body   == IF signed THEN Tail(s) ELSE s
        ds     == StripLeadingZeros(DigitsOf(body))
        limit  == IF neg THEN MinInt64Digits ELSE MaxInt64Digits
    IN  IF body = <<>> \/ \E i \in 1..Len(body) : ~IsDigit(body[i])
        THEN [v |-> Int64(FALSE, <<0>>), ok |-> FALSE]
        ELSE IF NumLess(limit, ds)
        THEN [v |-> Int64(neg, limit), ok |-> FALSE]
        ELSE IF ds = <<>> THEN [v |-> Int64(FALSE, <<0>>), ok |-> TRUE]
        ELSE [v |-> Int64(neg, ds), ok |-> TRUE]

\* the length of the run of ASCII digits of s that starts at offset i
RECURSIVE DigitRun(_, _)
DigitRun(s, i) ==
    IF i < Len(s) /\ IsDigit(s[i + 1]) THEN 1 + DigitRun(s, i + 1) ELSE 0

\* one digit d more of an exponent read as e so far: strconv stops
\* accumulating at 10000
expDigit(e, d) == IF e < 10000 THEN e * 10 + d ELSE e

\* the exponent strconv reads from the digits ds
RECURSIVE SmallVal(_)
SmallVal(ds) ==
    IF ds = <<>> THEN 0
    ELSE expDigit(SmallVal(SubSeq(ds, 1, Len(ds) - 1)), ds[Len(ds)])

\* the digits a are a prefix of the digits b, or b itself
IsPrefix(a, b) == Len(a) <= Len(b) /\ a = SubSeq(b, 1, Len(a))

\* the places where the digit strings a and b differ
DiffersAt(a, b) ==
    {i \in 1..(IF Len(a) < Len(b) THEN Len(a) ELSE Len(b)) : a[i] # b[i]}

\* 0.a < 0.b for digit strings without trailing zeros
FracLess(a, b) ==
    IF DiffersAt(a, b) = {} THEN a # b /\ IsPrefix(a, b)
    ELSE LET i == CHOOSE k \in DiffersAt(a, b) :
                      \A j \in DiffersAt(a, b) : k <= j
         IN  a[i] < b[i]

\* the float64 of the decimal ds * 10^e10, ds without leading or trailing
\* zeros: zero, an infinity with a range error, or the float64 nearest to
\* the decimal, which stands for it
floatValue(neg, ds, e10) ==
    LET mag == Len(ds) - 1 + e10
    IN  IF ds = <<>> THEN [v |-> Float64(neg, <<>>, 0), ok |-> TRUE]
        ELSE IF mag > 308 \/ (mag = 308 /\ ~FracLess(ds, InfDigits))
        THEN [v |-> Float64Inf(neg), ok |-> FALSE]
        ELSE IF mag < -324 \/ (mag = -324 /\ ~FracLess(ZeroDigits, ds))
        THEN [v |-> Float64(neg, <<>>, 0), ok |-> TRUE]
        ELSE [v |-> Float64(neg, ds, e10), ok |-> TRUE]

\* the decimal of the mantissa digits lead (leading zeros stripped), nfrac
\* of them behind the point, and the exponent ev
floatDecimal(neg, lead, nfrac, ev) ==
    LET ds == StripTrailingZeros(lead)
    IN  floatValue(neg, ds, ev - nfrac + (Len(lead) - Len(ds)))

\* s read up to offset i6: the mantissa is s[i0:i1] and s[i2:i3], the
\* exponent digits are s[i5:i6] behind an 'e' or 'E' where hasE
floatRead(s, neg, i0, i1, i2, i3, hasE, eneg, i5, i6) ==
    LET ev == SmallVal(StripLeadingZeros(DigitsOf(Slice(s, i5, i6))))
    IN  IF (i1 - i0) + (i3 - i2) = 0 \/ (hasE /\ i6 = i5) \/ i6 # Len(s)
        THEN [v |-> Float64(FALSE, <<>>, 0), ok |-> FALSE]
        ELSE floatDecimal(neg,
               StripLeadingZeros(DigitsOf(Slice(s, i0, i1))
                                 \o DigitsOf(Slice(s, i2, i3))),
               i3 - i2, IF eneg THEN 0 - ev ELSE ev)

\* the exponent's digits, from offset i5
floatExpDigits(s, neg, i0, i1, i2, i3, hasE, eneg, i5) ==
    floatRead(s, neg, i0, i1, i2, i3, hasE, eneg, i5,
              IF hasE THEN i5 + DigitRun(s, i5) ELSE i5)

\* the exponent's sign, at offset i4 where there is an exponent
floatExpSign(s, neg, i0, i1, i2, i3, hasE, i4) ==
    LET esign == hasE /\ i4 < Len(s) /\ IsSign(s[i4 + 1])
    IN  floatExpDigits(s, neg, i0, i1, i2, i3, hasE,
                       esign /\ s[i4 + 1] = 45, IF esign THEN i4 + 1 ELSE i4)

\* the exponent marker, at offset i3
floatExp(s, neg, i0, i1, i2, i3) ==
    LET hasE == i3 < Len(s) /\ (s[i3 + 1] = 101 \/ s[i3 + 1] = 69)
    IN  floatExpSign(s, neg, i0, i1, i2, i3, hasE,
                     IF hasE THEN i3 + 1 ELSE i3)

\* the digits behind the point, from offset i2 (i2 = i1 without a point)
floatFraction(s, neg, i0, i1, i2) ==
    floatExp(s, neg, i0, i1, i2,
             IF i2 > i1 THEN i2 + DigitRun(s, i2) ELSE i2)

\* the point, at offset i1
floatPoint(s, neg, i0, i1) ==
    floatFraction(s, neg, i0, i1,
                  IF i1 < Len(s) /\ s[i1 + 1] = 46 THEN i1 + 1 ELSE i1)

\* strconv.ParseFloat(s, 10), the bit size 10 meaning 64: [v, ok]; a syntax
\* error yields 0, a range error an infinity
ParseFloat(s) ==
    LET signed == s # <<>> /\ IsSign(s[1])
        i0     == IF signed THEN 1 ELSE 0
    IN  floatPoint(s, signed /\ s[1] = 45, i0, i0 + DigitRun(s, i0))

(***************************************************************************)
(* The scan state (State) and the output node (Result).                    *)
(***************************************************************************)
VARIABLES
    Input,      \* ps.Input, the bytes of the source text
    Pos,        \* ps.Pos, the cursor
    Error,      \* ps.Error: [pos, expected]
    node,       \* the *Result the parser was given
    child1,     \* child1 of CustomRegexpReplaceLiteral
    child2,     \* child2 of CustomRegexpReplaceLiteral
    pc,         \* "call", "scan" (in the loop of stringImpl), "ret", "done"
    parser,     \* the parser that is running
    seg,        \* the Result stringImpl writes: 0 node, 1 child1, 2 child2
    opener,     \* opener of the running parser
    closer,     \* closer handed to stringImpl
    escapes,    \* escapes handed to stringImpl
    end,        \* end of stringImpl
    buf,        \* buf of stringImpl
    matched,    \* what stringImpl returned
    wsPos       \* the cursor as ps.WS left it

vars == <<Input, Pos, Error, node, child1, child2, pc, parser, seg, opener,
          closer, escapes, end, buf, matched, wsPos>>

\* an expectation that is a label, and one that is string(r)
Str(label) == [text |-> label, rune |-> NoCloser]

RuneStr(r) == [text |-> "", rune |-> r]

\* a Result as the caller hands it over
FreshResult == [Start |-> 0, End |-> 0, Token |-> <<>>, Result |-> NoResult,
                Child |-> <<>>]

\* ps.ErrorHere(expected): the sink keeps the furthest failure, one at or
\* beyond the recorded position replacing it
ErrorHere(err, pos, expected) ==
    IF pos >= err.pos THEN [pos |-> pos, expected |-> expected] ELSE err

\* ps.Errored()
Errored == Error.expected # Str("")

\* ps.WS(ps): the cursor after the run of ASCII white space at pos
RECURSIVE WS(_, _)
WS(input, pos) ==
    IF pos < Len(input) /\ input[pos + 1] \in {9, 10, 11, 12, 13, 32}
    THEN WS(input, pos + 1) ELSE pos

\* the allowedQuotes StringLit is built with, and the same as a label
allowedQuotes == <<34, 39>>

allowedQuotesLabel == "\"'"

(***************************************************************************)
(* stringImpl                                                              *)
(***************************************************************************)
\* ExpectCloser, were the failure recorded one offset on
ExpectCloserOneOn(err, pos, cl) == ErrorHere(err, pos + 1, RuneStr(cl))

\* ps.ErrorHere(string(closer)) of stringImpl
ExpectCloser(err, pos, cl) == ErrorHere(err, pos, RuneStr(cl))

\* HexErrorPos, were the failure recorded at the 'u'
HexErrorPosAtU(e, size, s) == e + size

\* HexErrorPos, were the failure recorded at the backslash
HexErrorPosAtBackslash(e, size, s) == e

\* ps.Error.pos of a failed \u escape
HexErrorPos(e, size, s) == e + size + s

\* HexResume, were the scan to go on at the last digit
HexResumeAtLastDigit(e, size, s) == e + size + s + 3

\* the offset after a decoded \u escape
HexResume(e, size, s) == e + size + s + 4

\* what a \u escape of value v appends to buf
HexWrite(b, v) == WriteRune(b, v)

\* EscapeWrite, were the test c == closer left out
EscapeWriteNoCloserTest(b, current, c, cl, esc) ==
    IF c \in DOMAIN esc THEN WriteRune(b, esc[c])
    ELSE WriteRune(WriteRune(b, current), c)

\* EscapeWrite, were the replacement dropped for the letter
EscapeWriteLetter(b, current, c, cl, esc) ==
    IF c = cl THEN WriteRune(b, c)
    ELSE IF c \in DOMAIN esc THEN WriteRune(b, c)
    ELSE WriteRune(WriteRune(b, current), c)

\* EscapeWrite, were the backslash kept before the replacement
EscapeWriteKeepsBackslash(b, current, c, cl, esc) ==
    IF c = cl THEN WriteRune(b, c)
    ELSE IF c \in DOMAIN esc THEN WriteRune(WriteRune(b, current), esc[c])
    ELSE WriteRune(WriteRune(b, current), c)

\* what a backslash (current) followed by c, not 'u', appends to buf
EscapeWrite(b, current, c, cl, esc) ==
    IF c = cl THEN WriteRune(b, c)
    ELSE IF c \in DOMAIN esc THEN WriteRune(b, esc[c])
    ELSE WriteRune(WriteRune(b, current), c)

\* node.Token at the closer
ScannedToken(input, nd, e, b) ==
    IF b.nil THEN Slice(input, nd.Start, e) ELSE b.bytes

\* AfterCloser, were the cursor set one offset too far
AfterCloserOneOn(e, size) == e + size + 1

\* ps.Pos at the closer
AfterCloser(e, size) == e + size

\* One pass through the loop of stringImpl, from its test: what it leaves
\* in end, buf, *node, ps.Pos and ps.Error, and ret, "loop" when the loop
\* goes on and else what stringImpl returns
stringImplIter(input, pos, err, nd, e, b, cl, esc) ==
    LET inputLen == Len(input)
        d        == DecodeRuneInString(From(input, e))
        current  == d[1]
        size     == d[2]
        d2       == DecodeRuneInString(From(input, e + size))
        c        == d2[1]
        s        == d2[2]
        b1       == IF b.nil
                    THEN [nil |-> FALSE, bytes |-> Slice(input, nd.Start, e)]
                    ELSE b
        h        == unhex(Slice(input, e + size + s, e + size + s + 4))
        same     == [ret |-> "loop", end |-> e, buf |-> b, node |-> nd,
                     Pos |-> pos, Error |-> err]
    IN  IF ~(e < inputLen)
        THEN [same EXCEPT !.ret = "false",
                          !.Error = ExpectCloser(err, pos, cl)]
        ELSE IF current = Backslash THEN
          IF e + size >= inputLen
          THEN [same EXCEPT !.ret = "false",
                            !.Error = ExpectCloser(err, pos, cl)]
          ELSE IF c = LetterU THEN
            IF e + size + s + 4 >= inputLen
            THEN [same EXCEPT !.ret = "false", !.buf = b1,
                    !.Error = [expected |-> Str("[a-f0-9]{4}"),
                               pos |-> HexErrorPos(e, size, s)]]
            ELSE IF ~h.ok
            THEN [same EXCEPT !.ret = "false", !.buf = b1,
                    !.Error = [expected |-> Str("[a-f0-9]"),
                               pos |-> HexErrorPos(e, size, s)]]
            ELSE [same EXCEPT !.buf = HexWrite(b1, h.v),
                              !.end = HexResume(e, size, s)]
          ELSE [same EXCEPT !.buf = EscapeWrite(b1, current, c, cl, esc),
                            !.end = e + size + s]
        ELSE IF current = cl
        THEN [same EXCEPT !.ret = "true",
                !.node = [nd EXCEPT !.Token = ScannedToken(input, nd, e, b)],
                !.Pos = AfterCloser(e, size)]
        ELSE [same EXCEPT !.end = e + size,
                !.buf = IF b.nil THEN b ELSE WriteRune(b, current)]

\* the Result stringImpl was handed
Target == IF seg = 1 THEN child1 ELSE IF seg = 2 THEN child2 ELSE node

\* one iteration of the loop of stringImpl
stringImpl ==
    /\ pc = "scan"
    /\ LET r == stringImplIter(Input, Pos, Error, Target, end, buf, closer,
                               escapes)
       IN  /\ end' = r.end
           /\ buf' = r.buf
           /\ Pos' = r.Pos
           /\ Error' = r.Error
           /\ node' = IF seg = 0 THEN r.node ELSE node
           /\ child1' = IF seg = 1 THEN r.node ELSE child1
           /\ child2' = IF seg = 2 THEN r.node ELSE child2
           /\ matched' = (r.ret = "true")
           /\ pc' = IF r.ret = "loop" THEN "scan" ELSE "ret"
    /\ UNCHANGED <<Input, parser, seg, opener, closer, escapes, wsPos>>

(***************************************************************************)
(* The parsers.                                                            *)
(***************************************************************************)
\* an isValid of a caller's: 'a' opens what 'b' closes, nothing else opens
callerIsValid(r) == IF r = 97 THEN <<TRUE, 98>> ELSE <<FALSE, NoCloser>>

\* an escapes of a caller's: \n is 'X'
callerEscapes == (110 :> 88)

\* the isValid a parser is built with, by name
isValid(f, r) == IF f = "IsValidRegexpDelimiter" THEN IsValidRegexpDelimiter(r)
                 ELSE IF f = "callerIsValid" THEN callerIsValid(r)
                 ELSE <<FALSE, NoCloser>>

\* StringLit(allowedQuotes), up to its call of stringImpl
StringLit ==
    /\ pc = "call"
    /\ LET p == WS(Input, Pos)
           d == DecodeRuneInString(From(Input, p))
       IN  /\ wsPos' = p
           /\ Pos' = p
           /\ parser' = "StringLit"
           /\ opener' = d[1]
           /\ IF ~stringContainsRune(allowedQuotes, d[1])
              THEN /\ Error' = ErrorHere(Error, p, Str(allowedQuotesLabel))
                   /\ pc' = "done"
                   /\ UNCHANGED <<node, closer, escapes, end>>
              ELSE /\ node' = [node EXCEPT !.Start = p + d[2]]
                   /\ closer' = d[1]
                   /\ escapes' = _Escapes
                   /\ end' = p + d[2]
                   /\ pc' = "scan"
                   /\ UNCHANGED Error
    /\ UNCHANGED <<Input, child1, child2, seg, buf, matched>>

\* StringLit returns what stringImpl left
StringLitRet ==
    /\ pc = "ret"
    /\ parser = "StringLit"
    /\ pc' = "done"
    /\ UNCHANGED <<Input, Pos, Error, node, child1, child2, parser, seg,
                   opener, closer, escapes, end, buf, matched, wsPos>>

\* SingleSegment, were the cursor moved past the opener as
\* CustomRegexpReplaceLiteral moves it
SingleSegmentAdvancing(name, f, esc, label) ==
    /\ pc = "call"
    /\ LET p == WS(Input, Pos)
           d == DecodeRuneInString(From(Input, p))
           v == isValid(f, d[1])
       IN  /\ wsPos' = p
           /\ parser' = name
           /\ opener' = d[1]
           /\ IF ~v[1]
              THEN /\ Pos' = p
                   /\ Error' = ErrorHere(Error, p, Str(label))
                   /\ pc' = "done"
                   /\ UNCHANGED <<node, closer, escapes, end>>
              ELSE /\ Pos' = p + d[2]
                   /\ node' = [node EXCEPT !.Start = p + d[2]]
                   /\ closer' = v[2]
                   /\ escapes' = esc
                   /\ end' = p + d[2]
                   /\ pc' = "scan"
                   /\ UNCHANGED Error
    /\ UNCHANGED <<Input, child1, child2, seg, buf, matched>>

\* a single-segment parser built with isValid f and escapes esc, up to its
\* call of stringImpl; label is what it expects where no opener is
SingleSegment(name, f, esc, label) ==
    /\ pc = "call"
    /\ LET p == WS(Input, Pos)
           d == DecodeRuneInString(From(Input, p))
           v == isValid(f, d[1])
       IN  /\ wsPos' = p
           /\ Pos' = p
           /\ parser' = name
           /\ opener' = d[1]
           /\ IF ~v[1]
              THEN /\ Error' = ErrorHere(Error, p, Str(label))
                   /\ pc' = "done"
                   /\ UNCHANGED <<node, closer, escapes, end>>
              ELSE /\ node' = [node EXCEPT !.Start = p + d[2]]
                   /\ closer' = v[2]
                   /\ escapes' = esc
                   /\ end' = p + d[2]
                   /\ pc' = "scan"
                   /\ UNCHANGED Error
    /\ UNCHANGED <<Input, child1, child2, seg, buf, matched>>

\* CustomStringLiteral(isValid, escapes)
CustomStringLiteral(f, esc) ==
    SingleSegment("CustomStringLiteral", f, esc, "string delimiter")

\* UnicodeStringLiteral()
UnicodeStringLiteral ==
    CustomStringLiteral("IsValidRegexpDelimiter", _Escapes)

\* CustomStringLiteralRet, were ps.Error assigned as stringImpl assigns it
\* at a \u escape
CustomStringLiteralRetAssigning ==
    /\ pc = "ret"
    /\ parser = "CustomStringLiteral"
    /\ Error' = IF ~matched
                THEN [pos |-> Pos, expected |-> Str("string delimiter")]
                ELSE Error
    /\ pc' = "done"
    /\ UNCHANGED <<Input, Pos, node, child1, child2, parser, seg, opener,
                   closer, escapes, end, buf, matched, wsPos>>

\* CustomStringLiteral after stringImpl returned
CustomStringLiteralRet ==
    /\ pc = "ret"
    /\ parser = "CustomStringLiteral"
    /\ Error' = IF ~matched
                THEN ErrorHere(Error, Pos, Str("string delimiter"))
                ELSE Error
    /\ pc' = "done"
    /\ UNCHANGED <<Input, Pos, node, child1, child2, parser, seg, opener,
                   closer, escapes, end, buf, matched, wsPos>>

\* CustomRegexpMatchLiteral(isValid, escapes)
CustomRegexpMatchLiteral(f, esc) ==
    SingleSegment("CustomRegexpMatchLiteral", f, esc, "regexp delimiter")

\* UnicodeRegexpMatchLiteral()
UnicodeRegexpMatchLiteral ==
    CustomRegexpMatchLiteral("IsValidRegexpDelimiter", _Escapes)

\* CustomRegexpMatchLiteral after stringImpl returned
CustomRegexpMatchLiteralRet ==
    /\ pc = "ret"
    /\ parser = "CustomRegexpMatchLiteral"
    /\ Error' = IF ~matched
                THEN ErrorHere(Error, Pos, RuneStr(closer))
                ELSE Error
    /\ pc' = "done"
    /\ UNCHANGED <<Input, Pos, node, child1, child2, parser, seg, opener,
                   closer, escapes, end, buf, matched, wsPos>>

\* CustomRegexpReplaceLiteral(isValid, escapes), up to the scan of segment 1
CustomRegexpReplaceLiteral(f, esc) ==
    /\ pc = "call"
    /\ LET p == WS(Input, Pos)
           d == DecodeRuneInString(From(Input, p))
           v == isValid(f, d[1])
       IN  /\ wsPos' = p
           /\ parser' = "CustomRegexpReplaceLiteral"
           /\ opener' = d[1]
           /\ IF ~v[1]
              THEN /\ Pos' = p
                   /\ child1' = node
                   /\ Error' = ErrorHere(Error, p, Str("regexp delimiter"))
                   /\ pc' = "done"
                   /\ UNCHANGED <<seg, closer, escapes, end>>
              ELSE /\ Pos' = p + d[2]
                   /\ child1' = [node EXCEPT !.Start = p + d[2]]
                   /\ seg' = 1
                   /\ closer' = v[2]
                   /\ escapes' = esc
                   /\ end' = p + d[2]
                   /\ pc' = "scan"
                   /\ UNCHANGED Error
    /\ UNCHANGED <<Input, node, child2, buf, matched>>

\* UnicodeRegexpReplaceLiteral()
UnicodeRegexpReplaceLiteral ==
    CustomRegexpReplaceLiteral("IsValidRegexpDelimiter", _Escapes)

\* Segment2Escapes, were segment 2 scanned with the escapes of segment 1
Segment2EscapesOfCaller(esc) == esc

\* the escapes segment 2 is scanned with, esc being those the parser was
\* built with
Segment2Escapes(esc) == _Escapes

\* FreshOpener, were the closer of segment 1 always reused
FreshOpenerNever(op, cl) == FALSE

\* closer != opener: segment 2 has an opener of its own
FreshOpener(op, cl) == cl # op

\* CustomRegexpReplaceLiteral from the return of the scan of segment 1 to
\* the scan of segment 2
CustomRegexpReplaceLiteralSeg1Ret ==
    /\ pc = "ret"
    /\ parser = "CustomRegexpReplaceLiteral"
    /\ seg = 1
    /\ LET d == DecodeRuneInString(From(Input, Pos))
           v == IsValidRegexpDelimiter(d[1])
           fresh == FreshOpener(opener, closer)
           p2 == IF fresh THEN Pos + d[2] ELSE Pos
       IN  IF ~matched
           THEN /\ Error' = ErrorHere(Error, Pos, RuneStr(closer))
                /\ pc' = "done"
                /\ UNCHANGED <<Pos, child2, seg, opener, closer, escapes,
                               end, buf>>
           ELSE IF fresh /\ ~v[1]
           THEN /\ opener' = d[1]
                /\ closer' = v[2]
                /\ Pos' = p2
                /\ child2' = node
                /\ Error' = ErrorHere(Error, p2, Str("regexp delimiter"))
                /\ pc' = "done"
                /\ UNCHANGED <<seg, escapes, end, buf>>
           ELSE /\ opener' = IF fresh THEN d[1] ELSE opener
                /\ closer' = IF fresh THEN v[2] ELSE closer
                /\ Pos' = p2
                /\ child2' = [node EXCEPT !.Start = p2]
                /\ seg' = 2
                /\ escapes' = Segment2Escapes(escapes)
                /\ end' = p2
                /\ buf' = NilBuf
                /\ pc' = "scan"
                /\ UNCHANGED Error
    /\ UNCHANGED <<Input, node, child1, parser, matched, wsPos>>

\* CustomRegexpReplaceLiteral after the scan of segment 2 returned
CustomRegexpReplaceLiteralSeg2Ret ==
    /\ pc = "ret"
    /\ parser = "CustomRegexpReplaceLiteral"
    /\ seg = 2
    /\ IF ~matched
       THEN /\ Error' = ErrorHere(Error, Pos, RuneStr(closer))
            /\ UNCHANGED node
       ELSE /\ node' = [node EXCEPT !.Child = <<child1, child2>>]
            /\ UNCHANGED Error
    /\ pc' = "done"
    /\ UNCHANGED <<Input, Pos, child1, child2, parser, seg, opener, closer,
                   escapes, end, buf, matched, wsPos>>

\* NumberScan, were the exponent left out
NumberScanNoExponent(input, pos) ==
    LET inputLen == Len(input)
        e1  == IF pos < inputLen /\ IsSign(input[pos + 1])
               THEN pos + 1 ELSE pos
        e2  == e1 + DigitRun(input, e1)
        dot == e2 < inputLen /\ input[e2 + 1] = 46
        e3  == IF dot THEN e2 + 1 ELSE e2
        e4  == e3 + DigitRun(input, e3)
    IN  [end |-> e4, float |-> dot]

\* the scan of NumberLit from pos: the end it reaches and whether it saw a
\* '.' or an exponent marker
NumberScan(input, pos) ==
    LET inputLen == Len(input)
        e1  == IF pos < inputLen /\ IsSign(input[pos + 1])
               THEN pos + 1 ELSE pos
        e2  == e1 + DigitRun(input, e1)
        dot == e2 < inputLen /\ input[e2 + 1] = 46
        e3  == IF dot THEN e2 + 1 ELSE e2
        e4  == e3 + DigitRun(input, e3)
        ex  == e4 < inputLen /\ (input[e4 + 1] = 101 \/ input[e4 + 1] = 69)
        e5  == e4 + 1
        e6  == IF e5 < inputLen /\ IsSign(input[e5 + 1]) THEN e5 + 1 ELSE e5
        e7  == e6 + DigitRun(input, e6)
    IN  [end |-> IF ex THEN e7 ELSE e4, float |-> dot \/ ex]

\* NumberOutcome, were the cursor moved before the conversion
NumberOutcomeEarlyCursor(input, p, nd, err) ==
    LET sc   == NumberScan(input, p)
        text == Slice(input, p, sc.end)
        conv == IF sc.float THEN ParseFloat(text) ELSE ParseInt(text)
    IN  IF ~conv.ok
        THEN [node |-> [nd EXCEPT !.Result = conv.v], Pos |-> sc.end,
              Error |-> ErrorHere(err, p, Str("number"))]
        ELSE [node |-> [nd EXCEPT !.Result = conv.v, !.Start = p,
                                  !.End = sc.end],
              Pos |-> sc.end, Error |-> err]

\* NumberLit() on the cursor p that ps.WS left: what it leaves in *node,
\* ps.Pos and ps.Error
NumberOutcome(input, p, nd, err) ==
    LET sc   == NumberScan(input, p)
        text == Slice(input, p, sc.end)
        conv == IF sc.float THEN ParseFloat(text) ELSE ParseInt(text)
    IN  IF sc.end = p
        THEN [node |-> nd, Pos |-> p,
              Error |-> ErrorHere(err, p, Str("number"))]
        ELSE IF ~conv.ok
        THEN [node |-> [nd EXCEPT !.Result = conv.v], Pos |-> p,
              Error |-> ErrorHere(err, p, Str("number"))]
        ELSE [node |-> [nd EXCEPT !.Result = conv.v, !.Start = p,
                                  !.End = sc.end],
              Pos |-> sc.end, Error |-> err]

\* NumberLit()
NumberLit ==
    /\ pc = "call"
    /\ LET p == WS(Input, Pos)
           r == NumberOutcome(Input, p, node, Error)
       IN  /\ wsPos' = p
           /\ node' = r.node
           /\ Pos' = r.Pos
           /\ Error' = r.Error
    /\ parser' = "NumberLit"
    /\ pc' = "done"
    /\ UNCHANGED <<Input, child1, child2, seg, opener, closer, escapes, end,
                   buf, matched>>

(***************************************************************************)
(* The inputs and the specifications.                                      *)
(***************************************************************************)
\* the sequences over S of length at most n
SeqsUpTo(S, n) == UNION {[1..k -> S] : k \in 0..n}

\* nothing, or one space for ps.WS to skip
Leads == {<<>>, <<32>>}

\* '"', the pair of double angle quotes, '\\' and 'n'
StrAlphabet == {34, 171, 187, 92, 110}

StrInputs ==
    {l \o Utf8(b) : l \in Leads, b \in SeqsUpTo(StrAlphabet, MaxFrags)}

\* '8', 'D', 'f' and 'q'
HexAlphabet == {56, 68, 102, 113}

\* '"' and the left double angle quote
TailAlphabet == {34, 171}

\* '"', nothing or 'x', a backslash and 'u', then the digits and the tail
HexInputs ==
    {<<34>> \o pre \o <<92, 117>> \o Utf8(ds) \o Utf8(tl) :
        pre \in {<<>>, <<120>>},
        ds \in SeqsUpTo(HexAlphabet, MaxDigits),
        tl \in SeqsUpTo(TailAlphabet, MaxTail)}

\* '+', '-', '.', 'e', 'E', '0', '9' and '"'
NumAlphabet == {43, 45, 46, 101, 69, 48, 57, 34}

NumInputs == {l \o b : l \in Leads, b \in SeqsUpTo(NumAlphabet, MaxNumLen)}

\* NewState(input) and a fresh Result, before any parser runs
InitWith(inputs) ==
    /\ Input \in inputs
    /\ Pos = 0
    /\ Error = [pos |-> 0, expected |-> Str("")]
    /\ node = FreshResult
    /\ child1 = FreshResult
    /\ child2 = FreshResult
    /\ pc = "call"
    /\ parser = ""
    /\ seg = 0
    /\ opener = NoCloser
    /\ closer = NoCloser
    /\ escapes = _Escapes
    /\ end = 0
    /\ buf = NilBuf
    /\ matched = FALSE
    /\ wsPos = 0

Init == InitWith(StrInputs)

InitHex == InitWith(HexInputs)

InitNum == InitWith(NumInputs)

Next ==
    \/ StringLit
    \/ StringLitRet
    \/ UnicodeStringLiteral
    \/ CustomStringLiteralRet
    \/ UnicodeRegexpMatchLiteral
    \/ CustomRegexpMatchLiteralRet
    \/ UnicodeRegexpReplaceLiteral
    \/ CustomRegexpReplaceLiteralSeg1Ret
    \/ CustomRegexpReplaceLiteralSeg2Ret
    \/ stringImpl
    \/ NumberLit

Spec == Init /\ [][Next]_vars

SpecHex == InitHex /\ [][Next]_vars

SpecNum == InitNum /\ [][Next]_vars

(***************************************************************************)
(* What the properties below read off a state.                             *)
(***************************************************************************)
\* the rune that starts at offset k of the input, and the bytes of a rune
RuneAt(k) == IF k < Len(Input) THEN DecodeRuneInString(From(Input, k))[1]
             ELSE RuneError

RuneSize(r) == Len(EncodeRune(r))

\* the offsets from `from` on at which the rune cl starts
CloserOffsets(from, cl) == {k \in from..(Len(Input) - 1) : RuneAt(k) = cl}

SetMin(S) == CHOOSE x \in S : \A y \in S : x <= y

\* no backslash in Input[a:b]
NoBackslashIn(a, b) == \A i \in (a + 1)..b : Input[i] # 92

\* the rune r ends at offset p
EndsAt(p, r) ==
    p >= RuneSize(r) /\ Slice(Input, p - RuneSize(r), p) = EncodeRune(r)

\* the bytes bs stand at offset k of the input
StandsAt(k, bs) ==
    k + Len(bs) <= Len(Input) /\ Slice(Input, k, k + Len(bs)) = bs

\* the token scanned so far: the buffer, or the raw slice while there is none
TokenSoFar == IF buf.nil THEN Slice(Input, Target.Start, end) ELSE buf.bytes

\* the scan stands at a backslash that another rune follows
AtEscape == pc = "scan" /\ end + 1 < Len(Input) /\ Input[end + 1] = 92

\* an ASCII hex digit and its value
IsHexDigit(b) == b \in (48..57) \cup (65..70) \cup (97..102)

HexDigitValue(b) == IF b <= 57 THEN b - 48 ELSE IF b <= 70 THEN b - 55
                    ELSE b - 87

\* four hex digits stand at offsets k .. k+3
FourHexAt(k) == k + 4 <= Len(Input) /\ \A i \in 1..4 : IsHexDigit(Input[k + i])

\* the code point four hex digits at offset k spell
CodePointAt(k) ==
    HexDigitValue(Input[k + 1]) * 4096 + HexDigitValue(Input[k + 2]) * 256
      + HexDigitValue(Input[k + 3]) * 16 + HexDigitValue(Input[k + 4])

IsSurrogate(v) == v >= 55296 /\ v <= 57343

\* how many of the (at most four) bytes from offset k on are hex digits,
\* counted up to the first that is not
RECURSIVE HexPrefix(_, _)
HexPrefix(k, n) ==
    IF n < 4 /\ k + n < Len(Input) /\ IsHexDigit(Input[k + n + 1])
    THEN HexPrefix(k, n + 1) ELSE n

\* the scan is about to fail for want of a closer: it is at the end of the
\* input, or at a backslash that ends the input
OutOfInput ==
    /\ pc = "scan"
    /\ \/ end >= Len(Input)
       \/ (Input[end + 1] = 92 /\ end + 1 >= Len(Input))

(***************************************************************************)
(* C1, C2: the raw slice between the delimiters, and delimiter symmetry.   *)
(***************************************************************************)
\* C1: whenever a single-segment parser (StringLit, CustomStringLiteral,
\* CustomRegexpMatchLiteral) has accepted an opener and a closer follows a
\* body without backslash, stringImpl succeeds, the token is the raw slice
\* from just after the opener up to the first closer, and the cursor is
\* just after that closer.
C1_RawSliceToken ==
    (pc = "ret" /\ seg = 0) =>
        LET s0 == node.Start
            ks == CloserOffsets(s0, closer)
        IN  (ks # {} /\ NoBackslashIn(s0, SetMin(ks))) =>
                /\ matched
                /\ node.Token = Slice(Input, s0, SetMin(ks))
                /\ Pos = SetMin(ks) + RuneSize(closer)

\* C2: for every opener o that IsValidRegexpDelimiter accepts with closer
\* c, UnicodeStringLiteral on o + body + c (body without c and without
\* backslash) succeeds with Token = body and the cursor just after c, and a
\* literal that succeeds ends at c.
C2_DelimiterSymmetry ==
    (pc = "done" /\ parser = "CustomStringLiteral") =>
        LET o  == RuneAt(wsPos)
            v  == IsValidRegexpDelimiter(o)
            s0 == wsPos + RuneSize(o)
            ks == CloserOffsets(s0, v[2])
        IN  /\ (v[1] /\ ks # {} /\ NoBackslashIn(s0, SetMin(ks))) =>
                  /\ ~Errored
                  /\ node.Token = Slice(Input, s0, SetMin(ks))
                  /\ Pos = SetMin(ks) + RuneSize(v[2])
            /\ ~Errored => (v[1] /\ EndsAt(Pos, v[2]) /\ Pos > s0)

(***************************************************************************)
(* C3: the two segments of a regex-replace literal.                        *)
(***************************************************************************)
\* C3: when UnicodeRegexpReplaceLiteral succeeds, node.Child is the pair
\* (segment 1, segment 2); segment 1 starts after the opener; with a
\* symmetric delimiter segment 2 starts right after segment 1's closer and
\* ends at the same closer, with an asymmetric pair the rune after segment
\* 1's closer is an opener IsValidRegexpDelimiter accepts, segment 2 starts
\* after it and ends at its closer; the cursor is just after segment 2's
\* closer; and without backslashes the two tokens are the raw slices up to
\* the first closer of each segment.
C3_ReplaceTwoSegments ==
    (pc = "done" /\ parser = "CustomRegexpReplaceLiteral" /\ ~Errored) =>
        LET o1  == RuneAt(wsPos)
            v1  == IsValidRegexpDelimiter(o1)
            s1  == wsPos + RuneSize(o1)
            sym == v1[2] = o1
        IN  /\ v1[1]
            /\ Len(node.Child) = 2
            /\ node.Child[1].Start = s1
            /\ \E k \in CloserOffsets(s1, v1[2]) :
                 LET q  == k + RuneSize(v1[2])
                     o2 == RuneAt(q)
                     v2 == IF sym THEN v1 ELSE IsValidRegexpDelimiter(o2)
                     s2 == IF sym THEN q ELSE q + RuneSize(o2)
                     c2 == v2[2]
                     k2 == Pos - RuneSize(c2)
                 IN  /\ v2[1]
                     /\ node.Child[2].Start = s2
                     /\ k2 >= s2
                     /\ EndsAt(Pos, c2)
                     /\ NoBackslashIn(s1, Pos) =>
                          /\ k = SetMin(CloserOffsets(s1, v1[2]))
                          /\ node.Child[1].Token = Slice(Input, s1, k)
                          /\ k2 = SetMin(CloserOffsets(s2, c2))
                          /\ node.Child[2].Token = Slice(Input, s2, k2)

\* an asymmetric literal parsed: the input opens with the left double angle
\* quote and both segments were scanned, the first not empty
C3_Witness ==
    /\ pc = "done"
    /\ parser = "CustomRegexpReplaceLiteral"
    /\ ~Errored
    /\ RuneAt(wsPos) = 171
    /\ Len(node.Child) = 2
    /\ node.Child[1].Token # <<>>
    /\ node.Child[2].Start > node.Child[1].Start + 3

(***************************************************************************)
(* C4, C5: the \u escape.                                                  *)
(***************************************************************************)
\* the scan stands at a backslash followed by 'u'
AtHexEscape == AtEscape /\ Input[end + 2] = 117

\* C4 as claimed: where the scan meets a backslash-u followed by four hex
\* digits inside a delimited literal (a closer stands somewhere after the
\* digits), the iteration appends to the token the one code point the four
\* digits spell and resumes right after the fourth digit.
C4_HexAppendsCodePoint ==
    [][(AtHexEscape /\ FourHexAt(end + 2)
          /\ CloserOffsets(end + 6, closer) # {})
        => /\ pc' = "scan"
           /\ end' = end + 6
           /\ ~buf'.nil
           /\ Runes(buf'.bytes) = Runes(TokenSoFar) \o <<CodePointAt(end + 2)>>
      ]_vars

\* C4 as amended: the same, the code point appended being U+FFFD when the
\* four digits spell a surrogate (D800..DFFF).
C4_HexAppendsScalar ==
    [][(AtHexEscape /\ FourHexAt(end + 2)
          /\ CloserOffsets(end + 6, closer) # {})
        => /\ pc' = "scan"
           /\ end' = end + 6
           /\ ~buf'.nil
           /\ Runes(buf'.bytes) = Runes(TokenSoFar) \o
                <<IF IsSurrogate(CodePointAt(end + 2)) THEN 65533
                  ELSE CodePointAt(end + 2)>>
      ]_vars

\* a literal "\uD888" parsed: the escape spells a surrogate and the token
\* is the one code point U+FFFD
C4_Witness ==
    /\ pc = "done"
    /\ parser = "StringLit"
    /\ ~Errored
    /\ StandsAt(node.Start, <<92, 117, 68, 56, 56, 56>>)
    /\ Runes(node.Token) = <<65533>>
    /\ Pos = node.Start + 7

\* C5 as claimed: where the scan meets a backslash-u that fewer than four
\* hex digits follow, stringImpl fails expecting hex digits, the position
\* recorded being the offset of the first missing or invalid digit.
C5_HexErrorAtOffender ==
    [][(AtHexEscape /\ ~FourHexAt(end + 2))
        => /\ pc' = "ret"
           /\ ~matched'
           /\ Error'.expected \in {Str("[a-f0-9]{4}"), Str("[a-f0-9]")}
           /\ Error'.pos = end + 2 + HexPrefix(end + 2, 0)
      ]_vars

\* C5 as amended: the position recorded is the offset right after the 'u',
\* where the first digit of the escape is due, whichever digit is missing
\* or invalid; the cursor stays.
C5_HexErrorAtFirstDigit ==
    [][(AtHexEscape /\ ~FourHexAt(end + 2))
        => /\ pc' = "ret"
           /\ ~matched'
           /\ Error'.expected \in {Str("[a-f0-9]{4}"), Str("[a-f0-9]")}
           /\ Error'.pos = end + 2
           /\ Pos' = Pos
      ]_vars

\* a scan that failed at a \u escape whose first two digits are hex digits
\* and whose third is not
C5_Witness ==
    /\ pc = "ret"
    /\ ~matched
    /\ end + 5 <= Len(Input)
    /\ StandsAt(end, <<92, 117>>)
    /\ HexPrefix(end + 2, 0) = 2
    /\ Error = [pos |-> end + 2, expected |-> Str("[a-f0-9]")]

(***************************************************************************)
(* C6, C7: the other escapes.                                              *)
(***************************************************************************)
\* the rune after the backslash the scan stands at
Escaped == RuneAt(end + 1)

\* the escape letters and what each stands for
EscapeLetters == {97, 98, 102, 110, 114, 116, 118}

ControlOf(x) == CASE x = 97 -> 7 [] x = 98 -> 8 [] x = 102 -> 12
                  [] x = 110 -> 10 [] x = 114 -> 13 [] x = 116 -> 9
                  [] x = 118 -> 11

\* C6: where the scan meets a backslash followed by the closer, the
\* iteration appends one closer to the token and goes on after the escaped
\* closer; an iteration ends the literal only at a closer it meets as the
\* current rune, never at an escaped one.
C6_EscapedCloser ==
    [][/\ (AtEscape /\ Escaped = closer /\ closer # 117)
          => /\ pc' = "scan"
             /\ end' = end + 1 + RuneSize(closer)
             /\ ~buf'.nil
             /\ Runes(buf'.bytes) = Runes(TokenSoFar) \o <<closer>>
       /\ (pc = "scan" /\ pc' = "ret" /\ matched')
          => /\ RuneAt(end) = closer
             /\ closer # 92
             /\ Pos' = end + RuneSize(closer)
      ]_vars

\* a literal closed after an escaped closer: its token holds a closer
C6_Witness ==
    /\ pc = "done"
    /\ parser = "StringLit"
    /\ ~Errored
    /\ StandsAt(node.Start, <<92, 34>>)
    /\ node.Token = <<34, 110>>
    /\ Pos = node.Start + 4

\* C7: where the scan meets a backslash followed by a rune X that is
\* neither 'u' nor the closer, the iteration appends the control character
\* X stands for when X is an escape letter (a b f n r t v), and the
\* backslash and X unchanged when it is not; either way the scan goes on
\* after X.
C7_EscapeTable ==
    [][(AtEscape /\ Escaped # 117 /\ Escaped # closer)
        => /\ pc' = "scan"
           /\ end' = end + 1 + RuneSize(Escaped)
           /\ ~buf'.nil
           /\ Runes(buf'.bytes) = Runes(TokenSoFar) \o
                (IF Escaped \in EscapeLetters THEN <<ControlOf(Escaped)>>
                 ELSE <<92, Escaped>>)
      ]_vars

\* a scan that has passed \n, decoded to a line feed, and then a backslash
\* before a left double angle quote, both kept
C7_Witness ==
    /\ pc = "scan"
    /\ seg = 0
    /\ StandsAt(node.Start, <<92, 110, 92, 194, 171>>)
    /\ end = node.Start + 5
    /\ ~buf.nil
    /\ Runes(buf.bytes) = <<10, 92, 171>>

(***************************************************************************)
(* C8: running out of input.                                               *)
(***************************************************************************)
\* C8 as claimed: a scan that reaches the end of the input fails expecting
\* the closer, the position recorded being the end-of-input offset, or the
\* offset of the backslash when a lone backslash ends the input.
C8_CloserErrorAtEnd ==
    [][OutOfInput
        => /\ pc' = "ret"
           /\ ~matched'
           /\ Error'.expected = RuneStr(closer)
           /\ Error'.pos = IF end >= Len(Input) THEN Len(Input) ELSE end
      ]_vars

\* C8 as amended: such a scan fails expecting the closer, the position
\* recorded being the cursor ps.Pos, which the scan has not moved: the
\* offset of the opener for the single-segment parsers, the offset after
\* the last delimiter consumed in a regex-replace literal.
C8_CloserErrorAtCursor ==
    [][OutOfInput
        => /\ pc' = "ret"
           /\ ~matched'
           /\ Error'.expected = RuneStr(closer)
           /\ Error'.pos = Pos
           /\ Pos' = Pos
           /\ Pos = IF seg = 0 THEN wsPos ELSE Target.Start
      ]_vars

\* an unterminated literal behind a space: the scan ran to the end of the
\* input and the closer is expected at the opener
C8_Witness ==
    /\ pc = "ret"
    /\ seg = 0
    /\ ~matched
    /\ wsPos = 1
    /\ end = Len(Input)
    /\ end > wsPos + 2
    /\ Error = [pos |-> wsPos, expected |-> RuneStr(closer)]

(***************************************************************************)
(* C9, C10: NumberLit.                                                     *)
(***************************************************************************)
\* s is [sign] digits*
IsSignedDigits(s) ==
    \A i \in 1..Len(s) : IsDigit(s[i]) \/ (i = 1 /\ s[i] \in {43, 45})

\* s is empty or '.' digits*
IsFraction(s) ==
    s = <<>> \/ (s[1] = 46 /\ \A i \in 2..Len(s) : IsDigit(s[i]))

\* s is empty or ('e'|'E') [sign] digits*
IsExponent(s) ==
    s = <<>> \/ (s[1] \in {101, 69} /\ IsSignedDigits(Tail(s)))

\* s is [sign] digits* ['.' digits*] [('e'|'E') [sign] digits*]
IsNumberForm(s) ==
    \E a \in 0..Len(s) : \E b \in a..Len(s) :
        /\ IsSignedDigits(Slice(s, 0, a))
        /\ IsFraction(Slice(s, a, b))
        /\ IsExponent(Slice(s, b, Len(s)))

\* the length of the longest prefix of s of that form
NumberPrefix(s) ==
    CHOOSE k \in 0..Len(s) :
        /\ IsNumberForm(Slice(s, 0, k))
        /\ \A j \in (k + 1)..Len(s) : ~IsNumberForm(Slice(s, 0, j))

\* the text NumberLit is to scan, and its longest numeric prefix
NumberText == From(Input, wsPos)

NumberSlice == Slice(NumberText, 0, NumberPrefix(NumberText))

\* C9: when NumberLit succeeds, what it consumed is the longest prefix of
\* the form [sign] digits* ['.' digits*] [e|E [sign] digits*] at the scan
\* start; node.Start is the scan start, node.End the end of that prefix and
\* the cursor equals node.End; the value is an int64 exactly when the
\* prefix holds no '.', 'e' or 'E', and a float64 otherwise.
C9_NumberSlice ==
    (pc = "done" /\ parser = "NumberLit" /\ ~Errored) =>
        /\ node.Start = wsPos
        /\ node.End = wsPos + Len(NumberSlice)
        /\ Pos = node.End
        /\ node.Result.kind =
             IF \E i \in 1..Len(NumberSlice) : NumberSlice[i] \in {46, 101, 69}
             THEN "float64" ELSE "int64"

\* "-9.0" behind a space: a float64 from offset 1 to offset 5
C9_Witness ==
    /\ pc = "done"
    /\ parser = "NumberLit"
    /\ ~Errored
    /\ wsPos = 1
    /\ StandsAt(1, <<45, 57, 46, 48>>)
    /\ node.Result = Float64(TRUE, <<9>>, 0)
    /\ node.Start = 1
    /\ node.End = 5
    /\ Pos = 5

\* C10: when the numeric prefix at the scan start holds no digit (it is
\* empty, a bare sign, a bare '.', a sign and a '.', ...), NumberLit fails
\* expecting "number" at the scan start and the cursor stays at the scan
\* start.
C10_NoDigits ==
    (/\ pc = "done"
     /\ parser = "NumberLit"
     /\ \A i \in 1..Len(NumberSlice) : ~IsDigit(NumberSlice[i])) =>
        /\ Error = [pos |-> wsPos, expected |-> Str("number")]
        /\ Pos = wsPos

\* "-." behind a space: two bytes scanned, no digit, "number" expected at 1
C10_Witness ==
    /\ pc = "done"
    /\ parser = "NumberLit"
    /\ wsPos = 1
    /\ StandsAt(1, <<45, 46>>)
    /\ Len(NumberSlice) = 2
    /\ Error = [pos |-> 1, expected |-> Str("number")]
    /\ Pos = 1

(***************************************************************************)
(* C11, C12: IsValidRegexpDelimiter.                                       *)
(***************************************************************************)
\* the pairing tables in the order IsValidRegexpDelimiter tries them
PairingTables == <<_PiPf, _PsPf, _PsPe, _SmSm>>

\* the keys and the values of the pairing tables
TableRunes ==
    UNION {DOMAIN PairingTables[i] \cup
             {PairingTables[i][k] : k \in DOMAIN PairingTables[i]} :
           i \in 1..4}

\* a hyphen (Pd), the ideographic comma (Po), the euro sign (Sc), the
\* replacement character (So) and an emoji (So)
OtherRunes == {8208, 12289, 8364, 65533, 128512}

DelimRunes == (0..MaxRune) \cup TableRunes \cup OtherRunes

\* a code point r, then at most MaxClosers code points, each r or the closer
\* IsValidRegexpDelimiter pairs with r
DelimInputs ==
    UNION {{EncodeRune(r) \o Utf8(tl) :
              tl \in SeqsUpTo({r} \cup (IF IsValidRegexpDelimiter(r)[1]
                                        THEN {IsValidRegexpDelimiter(r)[2]}
                                        ELSE {}), MaxClosers)} :
           r \in DelimRunes}

InitDelim == InitWith(DelimInputs)

SpecDelim == InitDelim /\ [][Next]_vars

\* the tables that hold r as a key
TablesWith(r) == {i \in 1..4 : r \in DOMAIN PairingTables[i]}

\* C11: what UnicodeStringLiteral and UnicodeRegexpMatchLiteral got from
\* IsValidRegexpDelimiter for the opener r they read: r is accepted with
\* its partner of the first table (in the order _PiPf, _PsPf, _PsPe, _SmSm)
\* that holds r, a partner other than r; a code point of no table is
\* accepted with itself as the closer exactly when it is punctuation or
\* '>', and is rejected otherwise.
C11_DelimiterMatcher ==
    (pc # "call" /\ parser \in {"CustomStringLiteral",
                                "CustomRegexpMatchLiteral"}) =>
        LET accepted == closer # NoCloser
        IN  /\ \A i \in 1..4 : \A k \in DOMAIN PairingTables[i] :
                 PairingTables[i][k] # k
            /\ IF TablesWith(opener) # {}
               THEN /\ accepted
                    /\ closer = PairingTables[SetMin(TablesWith(opener))][opener]
                    /\ closer # opener
               ELSE IF IsPunct(opener) \/ opener = 62
               THEN accepted /\ closer = opener
               ELSE ~accepted /\ pc = "done" /\ Errored /\ Pos = wsPos

\* an empty literal between '<' and '>', and so closed by '>'
C11_Witness ==
    /\ pc = "done"
    /\ parser = "CustomStringLiteral"
    /\ Input = <<60, 62>>
    /\ opener = 60
    /\ closer = 62
    /\ ~Errored
    /\ Pos = 2

\* the literal opens with o and o stands again behind a body without
\* backslash
OpensAndCloses(o) ==
    /\ opener = o
    /\ CloserOffsets(wsPos + 1, o) # {}
    /\ NoBackslashIn(wsPos + 1, SetMin(CloserOffsets(wsPos + 1, o)))

\* UnicodeStringLiteral parsed a literal that o opens and closes
ClosedBy(o) ==
    /\ ~Errored
    /\ closer = o
    /\ Pos = SetMin(CloserOffsets(wsPos + 1, o)) + 1
    /\ node.Token = Slice(Input, wsPos + 1, Pos - 1)

\* C12 as claimed: '/', '|' and '!' each open a literal of
\* UnicodeStringLiteral that closes on the same character.
C12_SlashBarBang ==
    (pc = "done" /\ parser = "CustomStringLiteral") =>
        \A o \in {47, 124, 33} : OpensAndCloses(o) => ClosedBy(o)

\* C12 as amended: '/' and '!' each open a literal that closes on the same
\* character; '|', a math symbol and no punctuation, is rejected: the
\* parser fails expecting "string delimiter" where the '|' stands and the
\* cursor stays there.
C12_SlashBang ==
    (pc = "done" /\ parser = "CustomStringLiteral") =>
        /\ \A o \in {47, 33} : OpensAndCloses(o) => ClosedBy(o)
        /\ opener = 124 =>
             /\ Error = [pos |-> wsPos, expected |-> Str("string delimiter")]
             /\ Pos = wsPos
             /\ closer = NoCloser
             /\ node = FreshResult

\* the literal // parsed: '/' opened and closed it
C12_Witness ==
    /\ pc = "done"
    /\ parser = "CustomStringLiteral"
    /\ Input = <<47, 47>>
    /\ opener = 47
    /\ closer = 47
    /\ ~Errored
    /\ node.Token = <<>>
    /\ Pos = 2

(***************************************************************************)
(* C13 to C16: what a failure leaves behind.                               *)
(***************************************************************************)
\* '"', '\\', 'u' and '9': unterminated literals, escapes cut short, openers
\* that are none, numbers and what is no number
FailAlphabet == {34, 92, 117, 57}

FailInputs == {l \o b : l \in Leads, b \in SeqsUpTo(FailAlphabet, MaxFailLen)}

InitFail == InitWith(FailInputs)

SpecFail == InitFail /\ [][Next]_vars

\* the parsers of one segment, and NumberLit
OneSegment == {"StringLit", "CustomStringLiteral", "CustomRegexpMatchLiteral"}

\* C13: StringLit, CustomStringLiteral, CustomRegexpMatchLiteral and
\* NumberLit move the cursor only when they succeed: while the segment is
\* scanned and after any failure the cursor is where the white space skip
\* left it, and after a success it is beyond.
C13_CursorOnlyOnSuccess ==
    (parser \in OneSegment \cup {"NumberLit"}) =>
        /\ pc = "scan" => Pos = wsPos
        /\ (pc = "ret" /\ ~matched) => Pos = wsPos
        /\ (pc = "done" /\ Errored) => Pos = wsPos
        /\ (pc = "done" /\ ~Errored) => Pos > wsPos

\* UnicodeRegexpMatchLiteral failed at a \u escape cut short, behind a
\* space: the cursor is still at the opener
C13_Witness ==
    /\ pc = "done"
    /\ parser = "CustomRegexpMatchLiteral"
    /\ Input = <<32, 34, 92, 117, 57>>
    /\ Error = [pos |-> 4, expected |-> Str("[a-f0-9]{4}")]
    /\ wsPos = 1
    /\ Pos = 1

\* C14: a parser that has failed leaves the node as it was handed over:
\* Start, End, Token, Result and Child are what they were before the call.
C14_NodeUntouchedOnFailure ==
    (pc = "done" /\ Errored) => node = FreshResult

\* the hex-digit expectations of stringImpl
HexExpectations == {Str("[a-f0-9]{4}"), Str("[a-f0-9]")}

\* C15 as claimed: whenever an error is recorded, its position is at most
\* the cursor of that moment, and it is not before the position recorded
\* until then.
C15_ErrorAtMostCursor ==
    [][Error' # Error => (Error'.pos <= Pos' /\ Error'.pos >= Error.pos)]_vars

\* C15 as amended: the position recorded is never before the one recorded
\* until then; an error other than a hex-digit expectation is recorded at
\* the cursor of that moment; a hex-digit expectation is recorded right
\* after the 'u' of the escape, which is beyond the cursor and at most the
\* length of the input.
C15_ErrorAtCursorOrHexDigit ==
    [][Error' # Error =>
         /\ Error'.pos >= Error.pos
         /\ IF Error'.expected \in HexExpectations
            THEN /\ pc = "scan"
                 /\ Error'.pos = end + 2
                 /\ Error'.pos > Pos'
                 /\ Error'.pos <= Len(Input)
            ELSE Error'.pos = Pos'
      ]_vars

\* a scan that failed at a \u escape cut short: four hex digits are
\* expected beyond the cursor
C15_Witness ==
    /\ pc = "ret"
    /\ ~matched
    /\ Input = <<34, 92, 117, 57>>
    /\ Error = [pos |-> 3, expected |-> Str("[a-f0-9]{4}")]
    /\ Pos = 0

\* what CustomStringLiteral, CustomRegexpMatchLiteral and
\* CustomRegexpReplaceLiteral are in the model
Customizable == {"CustomStringLiteral", "CustomRegexpMatchLiteral",
                 "CustomRegexpReplaceLiteral"}

\* C16: when the scan of a segment has failed inside CustomStringLiteral,
\* CustomRegexpMatchLiteral or CustomRegexpReplaceLiteral with an error
\* recorded beyond the cursor, where the parser records its own
\* expectation, the sink still holds the error of the scan after the
\* parser has returned.
C16_InnerErrorKept ==
    [][(pc = "ret" /\ ~matched /\ parser \in Customizable
          /\ Error.pos > Pos)
        => (pc' = "done" /\ Error' = Error)]_vars

\* UnicodeStringLiteral returned from a scan that failed at a \u escape cut
\* short: the sink holds the hex-digit expectation, not "string delimiter"
C16_Witness ==
    /\ pc = "done"
    /\ parser = "CustomStringLiteral"
    /\ Input = <<34, 92, 117, 57>>
    /\ Error = [pos |-> 3, expected |-> Str("[a-f0-9]{4}")]
    /\ Pos = 0

(***************************************************************************)
(* C17: the scan ends.                                                     *)
(***************************************************************************)
\* SpecFail with every step that can be taken eventually taken: a parser
\* that was called runs on until it returns
SpecFailFair == InitFail /\ [][Next]_vars /\ WF_vars(Next)

\* the offsets stay within the input
WithinInput == end <= Len(Input) /\ Pos <= Len(Input)

\* an iteration of the loop of stringImpl returns or moves end forward
IterationAdvances ==
    [][pc = "scan" => (pc' = "ret" \/ (pc' = "scan" /\ end' > end))]_vars

\* a scan that has failed is the end of the parser: nothing is scanned again
FailureIsFinal == [][(pc = "ret" /\ ~matched) => pc' = "done"]_vars

\* C17 as claimed: every scan ends; an iteration returns or moves the scan
\* offset forward; the scan offset and the cursor stay within the input; a
\* scan fails only with the input consumed to its end (or to a lone
\* backslash that ends it), and that failure is the one outcome.
C17_ScanConsumesInput ==
    /\ []WithinInput
    /\ IterationAdvances
    /\ FailureIsFinal
    /\ [][(pc = "scan" /\ pc' = "ret" /\ ~matched')
            => (Errored' /\ OutOfInput)]_vars
    /\ <>(pc = "done")

\* C17 as amended: the same, but a scan fails either with the input
\* consumed to its end (or to a lone backslash that ends it), expecting the
\* closer, or at a malformed \u escape, expecting hex digits, with the
\* input behind the escape left unscanned.
C17_ScanTerminates ==
    /\ []WithinInput
    /\ IterationAdvances
    /\ FailureIsFinal
    /\ [][(pc = "scan" /\ pc' = "ret" /\ ~matched')
            => /\ Errored'
               /\ end' = end
               /\ IF OutOfInput THEN Error'.expected = RuneStr(closer)
                  ELSE /\ AtHexEscape
                       /\ Error'.expected \in HexExpectations
                       /\ end + 2 <= Len(Input)]_vars
    /\ <>(pc = "done")

\* an unterminated literal scanned to the end of the input, where the scan
\* failed expecting the closer
C17_Witness ==
    /\ pc = "ret"
    /\ ~matched
    /\ Input = <<34, 57, 117, 57>>
    /\ end = 4
    /\ Error.expected = RuneStr(34)

(***************************************************************************)
(* C18: scanning what was re-escaped.                                      *)
(***************************************************************************)
\* the control characters _Escapes yields, and the letter of each
EscapeValues == {_Escapes[k] : k \in DOMAIN _Escapes}

EscapeLetterOf(c) == CHOOSE k \in DOMAIN _Escapes : _Escapes[k] = c

\* the runes v with each control character of _Escapes replaced by a
\* backslash and its letter
RECURSIVE ReEscape(_)
ReEscape(v) ==
    IF v = <<>> THEN <<>>
    ELSE (IF Head(v) \in EscapeValues THEN <<92, EscapeLetterOf(Head(v))>>
          ELSE <<Head(v)>>) \o ReEscape(Tail(v))

\* the seven control characters, and 'n', '"' and the right double angle
\* quote as ordinary code points
ValueAlphabet == EscapeValues \cup {110, 34, 187}

\* the pairs of delimiters of the literals
RoundDelimiters == {<<34, 34>>, <<171, 187>>}

\* v re-escaped between the delimiters dl
Wrapped(dl, v) == Utf8(<<dl[1]>> \o ReEscape(v) \o <<dl[2]>>)

\* the literals of the values (a value may hold the closer: its literal is
\* then closed early)
RoundInputs ==
    {Wrapped(dl, v) : dl \in RoundDelimiters,
                      v \in SeqsUpTo(ValueAlphabet, MaxValueLen)}

InitRound == InitWith(RoundInputs)

SpecRound == InitRound /\ [][Next]_vars

\* the value whose re-escaping the runes rs are, if they are one
RECURSIVE Original(_)
Original(rs) ==
    IF rs = <<>> THEN <<>>
    ELSE IF Head(rs) = 92 /\ Len(rs) >= 2 /\ rs[2] \in DOMAIN _Escapes
    THEN <<_Escapes[rs[2]]>> \o Original(Tail(Tail(rs)))
    ELSE <<Head(rs)>> \o Original(Tail(rs))

\* the runes of the input between its first and its last code point
InputBody == SubSeq(Runes(Input), 2, Len(Runes(Input)) - 1)

\* C18: when a single-segment parser has scanned an input that is, between
\* the opener and the closer the parser pairs with it, the re-escaping of a
\* value v without backslash and without that closer, the parser has
\* succeeded, the token is v and the cursor is behind the closer.
C18_RoundTrip ==
    (pc = "done" /\ parser \in OneSegment /\ closer # NoCloser) =>
        LET v == Original(InputBody)
        IN  (/\ Len(Runes(Input)) >= 2
             /\ Runes(Input)[Len(Runes(Input))] = closer
             /\ ReEscape(v) = InputBody
             /\ \A i \in 1..Len(v) : v[i] # 92 /\ v[i] # closer) =>
                /\ ~Errored
                /\ Runes(node.Token) = v
                /\ Pos = Len(Input)

\* the value line feed, '"', tab scanned from its re-escaping between the
\* double angle quotes
C18_Witness ==
    /\ pc = "done"
    /\ parser = "CustomStringLiteral"
    /\ Input = <<194, 171, 92, 110, 34, 92, 116, 194, 187>>
    /\ ~Errored
    /\ Runes(node.Token) = <<10, 34, 9>>
    /\ Pos = 9

(***************************************************************************)
(* C19: the replace literal at a rejected second opener.                   *)
(***************************************************************************)
\* the scan of segment 1 of a replace literal has returned its closer, the
\* pair is asymmetric and the code point at the cursor is no delimiter
SecondOpenerRejected ==
    /\ pc = "ret"
    /\ parser = "CustomRegexpReplaceLiteral"
    /\ seg = 1
    /\ matched
    /\ closer # opener
    /\ ~IsValidRegexpDelimiter(DecodeRuneInString(From(Input, Pos))[1])[1]

\* C19: when the code point behind the closer of segment 1 of an asymmetric
\* pair is rejected as a second opener, "regexp delimiter" is recorded at
\* the position of that code point, the node is left as it was and the
\* cursor stays just behind the closer of segment 1.
C19_RejectedOpenerNotConsumed ==
    [][SecondOpenerRejected =>
          /\ Error' = [pos |-> Pos, expected |-> Str("regexp delimiter")]
          /\ node' = node
          /\ Pos' = Pos]_vars

(***************************************************************************)
(* C20: the replace literal built with a caller's isValid and escapes.     *)
(***************************************************************************)
\* CustomRegexpReplaceLiteral(callerIsValid, callerEscapes), up to the scan
\* of segment 1
CallerRegexpReplaceLiteral ==
    CustomRegexpReplaceLiteral("callerIsValid", callerEscapes)

\* '\\' and 'n'
SegmentAlphabet == {92, 110}

\* 'a' and the left double angle quote
CallerOpeners == {97, 171}

\* a first opener, segment 1, 'b', a second opener, segment 2 and the right
\* double angle quote or nothing
CallerInputs ==
    {l \o Utf8(<<o1>> \o s1 \o <<98, o2>> \o s2 \o e) :
        l \in Leads, o1 \in CallerOpeners, o2 \in CallerOpeners,
        s1 \in SeqsUpTo(SegmentAlphabet, MaxSegment),
        s2 \in SeqsUpTo(SegmentAlphabet, MaxSegment),
        e \in {<<>>, <<187>>}}

InitCaller == InitWith(CallerInputs)

NextCaller ==
    \/ CallerRegexpReplaceLiteral
    \/ CustomRegexpReplaceLiteralSeg1Ret
    \/ CustomRegexpReplaceLiteralSeg2Ret
    \/ stringImpl

SpecCaller == InitCaller /\ [][NextCaller]_vars

\* the scan of a segment is under way or has returned
InSegment(s) == pc \in {"scan", "ret"} /\ seg = s

\* segment 1 is scanned with the caller's escapes up to the closer the
\* caller's isValid pairs with the opener
Segment1OfCaller ==
    InSegment(1) =>
        /\ escapes = callerEscapes
        /\ callerIsValid(opener) = <<TRUE, closer>>

\* segment 2 is scanned with _Escapes
Segment2OfDefault == InSegment(2) => escapes = _Escapes

\* the code point behind the closer of segment 1 opens segment 2 exactly
\* when IsValidRegexpDelimiter accepts it, and the closer is then its partner
SecondOpenerOfDefault ==
    [][(InSegment(1) /\ pc = "ret" /\ matched /\ closer # opener) =>
          LET r == DecodeRuneInString(From(Input, Pos))[1]
              v == IsValidRegexpDelimiter(r)
          IN  IF v[1]
              THEN pc' = "scan" /\ seg' = 2 /\ opener' = r /\ closer' = v[2]
              ELSE /\ pc' = "done"
                   /\ Error'.expected = Str("regexp delimiter")]_vars

\* C20: in a replace literal built with a caller's isValid and escapes only
\* segment 1 is scanned with them; a second opener is validated by
\* IsValidRegexpDelimiter and segment 2 is scanned with _Escapes.
C20_CallerConfiguresSegment1Only ==
    /\ [](Segment1OfCaller /\ Segment2OfDefault)
    /\ SecondOpenerOfDefault

\* a\nb, then \n between the double angle quotes: segment 1 is "X" by the
\* caller's escapes, segment 2 is a line feed by _Escapes
C20_Witness ==
    /\ pc = "done"
    /\ parser = "CustomRegexpReplaceLiteral"
    /\ Input = <<97, 92, 110, 98, 194, 171, 92, 110, 194, 187>>
    /\ ~Errored
    /\ Len(node.Child) = 2
    /\ Runes(node.Child[1].Token) = <<88>>
    /\ Runes(node.Child[2].Token) = <<10>>

====
